---- MODULE Spec2Model ----
(***************************************************************************)
(* State-machine model of subsgrade (src/index.js): the directory walker   *)
(* deepReadDir, the `deps` flow cmdDependencies and the `commits` flow     *)
(* cmdCommits, each with the yargs command handler that runs it.           *)
(*                                                                         *)
(* Strings the code takes apart (paths, lockfile lines, source strings,    *)
(* remote urls, log lines) are sequences of tokens; the string is the      *)
(* concatenation of its tokens.  A path is the sequence of its components. *)
(***************************************************************************)
EXTENDS Naturals, Sequences, FiniteSets, TLC

VARIABLES
  \* ---- the environment ----
  fs,            \* directory path -> its listing: sequence of dirents
  ignoreSet,     \* <<dirPath, name>> pairs for which ignoreFn returns true
  matchSet,      \* <<dirPath, name>> pairs for which matcherFn returns true
  originCfg,     \* <path>/.git/config: the remote "origin" section
  lockFile,      \* <path>/Cargo.lock: whether it exists, and its lines
  \* ---- deepReadDir ----
  dirState,      \* directory path -> "idle" | "pending" | "listed" | "failed"
  slots,         \* directory path -> what each map callback returned
  calls,         \* the predicate calls made so far, in call order
  \* ---- the running command ----
  pc,            \* position of the command's async function
  out,           \* what console.log printed, in order
  errOut,        \* what console.error printed, in order
  exitCode,      \* the process exit status, "running" until the process ends
  \* ---- cmdDependencies ----
  cargoLock,     \* --lock
  verbose,       \* --verbose
  files,         \* what the caller of deepReadDir received
  reads,         \* the paths given to fs.readFileSync, in order
  parsed,        \* what toml.parse returned for each file read, in order
  dependencies,  \* the Cargo.toml index (insertion-ordered object)
  cargoLockPackages, \* the Cargo.lock index (insertion-ordered object)
  verifyPos,     \* position of the verification loop in Object.keys(cargoLockPackages)
  requests,      \* the hosting-API requests issued, in order
  responses,     \* the outcome of each completed request, in order
  \* ---- cmdCommits ----
  vcs,           \* the git commands issued, in order
  gitUrl,
  currentBranch,
  lastUpstreamCommit,
  logLines,      \* stdout of the git log of the tracked branch, split in lines
  contained,     \* the answer of each completed containment query, in order
  extraCommits,
  needCommits

envVars == <<fs, ignoreSet, matchSet, originCfg, lockFile>>
walkVars == <<dirState, slots, calls>>
ioVars == <<out, errOut, exitCode>>
depsVars == <<cargoLock, verbose, files, reads, parsed, dependencies, cargoLockPackages,
              verifyPos, requests, responses>>
commitsVars == <<vcs, gitUrl, currentBranch, lastUpstreamCommit, logLines, contained,
                 extraCommits, needCommits>>
vars == <<envVars, walkVars, pc, ioVars, depsVars, commitsVars>>

----------------------------------------------------------------------------
(* Paths and directory entries *)

Root == <<>>

join(dirPath, name) == Append(dirPath, name)

Dir(n)  == [name |-> n, kind |-> "dir"]
File(n) == [name |-> n, kind |-> "file"]
Link(n) == [name |-> n, kind |-> "link"]

isDirectory(dirent) == dirent.kind = "dir"
isFile(dirent) == dirent.kind = "file"

\* every <<dirPath, name>> pair of a tree
Entries(tree) ==
  UNION { { <<d, tree[d][i].name>> : i \in 1..Len(tree[d]) } : d \in DOMAIN tree }

NonDirEntries(tree) ==
  UNION { { <<d, tree[d][i].name>> : i \in { j \in 1..Len(tree[d]) : ~isDirectory(tree[d][j]) } }
          : d \in DOMAIN tree }

\* The tree walked with caller-chosen predicates
TreeWalk ==
  (Root :> <<Dir("a"), File("f"), Dir("b")>>) @@
  (<<"a">> :> <<File("g"), Dir("c")>>) @@
  (<<"a", "c">> :> <<File("h")>>) @@
  (<<"b">> :> <<File("k")>>)

----------------------------------------------------------------------------
(* deepReadDir *)

ignoreFn(dirPath, dirent) == <<dirPath, dirent.name>> \in ignoreSet
matcherFn(dirPath, dirent) == <<dirPath, dirent.name>> \in matchSet

\* a variant of the callback that tests isDirectory before ignoreFn, so that
\* every directory is recursed into
MapDirentDirFirst(dirPath, dirent) ==
  IF isDirectory(dirent)
    THEN [kind |-> "dir", path |-> join(dirPath, dirent.name), asked |-> {}]
  ELSE IF ignoreFn(dirPath, dirent)
    THEN [kind |-> "null", path |-> join(dirPath, dirent.name), asked |-> {"ignoreFn"}]
  ELSE IF ~matcherFn(dirPath, dirent)
    THEN [kind |-> "null", path |-> join(dirPath, dirent.name),
          asked |-> {"ignoreFn", "matcherFn"}]
  ELSE [kind |-> "path", path |-> join(dirPath, dirent.name),
        asked |-> {"ignoreFn", "matcherFn"}]

\* The map callback: what one dirent of dirPath becomes, and the predicates
\* the callback asked on the way.
MapDirent(dirPath, dirent) ==
  IF ignoreFn(dirPath, dirent)
    THEN [kind |-> "null", path |-> join(dirPath, dirent.name), asked |-> {"ignoreFn"}]
  ELSE IF isDirectory(dirent)
    THEN [kind |-> "dir", path |-> join(dirPath, dirent.name), asked |-> {"ignoreFn"}]
  ELSE IF ~matcherFn(dirPath, dirent)
    THEN [kind |-> "null", path |-> join(dirPath, dirent.name),
          asked |-> {"ignoreFn", "matcherFn"}]
  ELSE [kind |-> "path", path |-> join(dirPath, dirent.name),
        asked |-> {"ignoreFn", "matcherFn"}]

\* deepReadDir(d) is called: readdir(d) is issued and the call awaits it
StartDeepReadDir(d) == [dirState EXCEPT ![d] = "pending"]

\* a variant that does not await the recursive calls
DirFulfilledShallow(d) == dirState[d] = "listed"

\* the promise of deepReadDir(d) is fulfilled: its listing arrived and every
\* recursive call made by its callbacks is fulfilled (Promise.all)
RECURSIVE DirFulfilled(_)
DirFulfilled(d) ==
  /\ dirState[d] = "listed"
  /\ \A i \in 1..Len(slots[d]) :
       slots[d][i].kind = "dir" => DirFulfilled(slots[d][i].path)

\* the promise of deepReadDir(d) is rejected: readdir(d) failed, or a
\* recursive call made by one of its callbacks is rejected
RECURSIVE DirRejected(_)
DirRejected(d) ==
  \/ dirState[d] = "failed"
  \/ /\ dirState[d] = "listed"
     /\ \E i \in 1..Len(slots[d]) :
          slots[d][i].kind = "dir" /\ DirRejected(slots[d][i].path)

\* the value of a fulfilled deepReadDir(d): the callbacks' results in map order,
\* .flat(Infinity).filter(it => it)
RECURSIVE FlatFrom(_, _)
RECURSIVE DirValue(_)
DirValue(d) == FlatFrom(d, 1)
FlatFrom(d, i) ==
  IF i > Len(slots[d]) THEN <<>>
  ELSE (CASE slots[d][i].kind = "null" -> <<>>
          [] slots[d][i].kind = "path" -> <<slots[d][i].path>>
          [] slots[d][i].kind = "dir"  -> DirValue(slots[d][i].path))
       \o FlatFrom(d, i + 1)

\* the predicate calls of the callbacks of d, from dirent i on, in call order
RECURSIVE CallsOf(_, _, _)
CallsOf(d, mapped, i) ==
  IF i > Len(mapped) THEN <<>>
  ELSE <<[fn |-> "ignoreFn", dirPath |-> d, name |-> fs[d][i].name]>>
       \o (IF "matcherFn" \in mapped[i].asked
             THEN <<[fn |-> "matcherFn", dirPath |-> d, name |-> fs[d][i].name]>>
             ELSE <<>>)
       \o CallsOf(d, mapped, i + 1)

\* readdir(d) completes with the listing: the map callbacks run one after the
\* other, each up to its first await, so every non-ignored subdirectory has
\* its own readdir in flight when the step ends
ReaddirOk(d) ==
  /\ dirState[d] = "pending"
  /\ LET mapped == [i \in 1..Len(fs[d]) |-> MapDirent(d, fs[d][i])]
         started == { mapped[i].path : i \in { j \in 1..Len(mapped) : mapped[j].kind = "dir" } }
     IN /\ slots' = [slots EXCEPT ![d] = mapped]
        /\ dirState' = [x \in DOMAIN dirState |->
                          IF x = d THEN "listed"
                          ELSE IF x \in started THEN "pending"
                          ELSE dirState[x]]
        /\ calls' = calls \o CallsOf(d, mapped, 1)
  /\ UNCHANGED <<envVars, pc, ioVars, depsVars, commitsVars>>

\* readdir(d) fails (unreadable directory)
ReaddirFail(d) ==
  /\ dirState[d] = "pending"
  /\ dirState' = [dirState EXCEPT ![d] = "failed"]
  /\ UNCHANGED <<envVars, slots, calls, pc, ioVars, depsVars, commitsVars>>

Readdir == \E d \in DOMAIN fs : ReaddirOk(d)
ReaddirError == \E d \in DOMAIN fs : ReaddirFail(d)

\* A caller: files = await deepReadDir(Root, ignoreFn, matcherFn)
CallDeepReadDir ==
  /\ pc = "w_start"
  /\ dirState' = StartDeepReadDir(Root)
  /\ pc' = "w_await"
  /\ UNCHANGED <<envVars, slots, calls, ioVars, depsVars, commitsVars>>

WalkReturn ==
  /\ pc = "w_await"
  /\ DirFulfilled(Root)
  /\ files' = DirValue(Root)
  /\ pc' = "w_returned"
  /\ UNCHANGED <<envVars, walkVars, ioVars, cargoLock, verbose, reads, parsed, dependencies,
                 cargoLockPackages, verifyPos, requests, responses, commitsVars>>

WalkThrow ==
  /\ pc = "w_await"
  /\ DirRejected(Root)
  /\ pc' = "w_threw"
  /\ UNCHANGED <<envVars, walkVars, ioVars, depsVars, commitsVars>>

----------------------------------------------------------------------------
(* Input domains *)

\* longest git log of the tracked branch
MaxLog == 3

\* abbreviated commit hashes, and the log line "%h %s" of each, split at " "
Shas == {"c1", "c2", "c3", "c4"}
LogLine(sha) ==
  CASE sha = "c1" -> <<"c1", "fix", "bug">>
    [] sha = "c2" -> <<"c2", "add">>
    [] sha = "c3" -> <<"c3">>
    [] sha = "c4" -> <<"c4", "Merge", "branch", "x">>

\* the sequences without repetition over S of length 1..n
RECURSIVE SeqsNoRep(_, _)
SeqsNoRep(S, n) ==
  IF n = 0 THEN {<<>>}
  ELSE LET shorter == SeqsNoRep(S, n - 1)
       IN  shorter \cup { Append(q, x) : q \in shorter, x \in S }

Injective(q) == \A i, j \in 1..Len(q) : i # j => q[i] # q[j]

Logs == { [i \in 1..Len(q) |-> LogLine(q[i])] :
            q \in { r \in SeqsNoRep(Shas, MaxLog) : Len(r) >= 1 /\ Injective(r) } }

\* what git branch --show-current prints ("" on a detached HEAD)
Branches == {"main", ""}

\* remote "origin" sections of .git/config
OriginAbsent == [section |-> FALSE, hasUrl |-> FALSE, url |-> <<>>]
OriginNoUrl  == [section |-> TRUE, hasUrl |-> FALSE, url |-> <<>>]
OriginUrl(u) == [section |-> TRUE, hasUrl |-> TRUE, url |-> u]
UrlSsh      == <<"git@github.com:", "o", "/", "r", ".git">>
UrlSshBare  == <<"git@github.com:", "o", "/", "r">>
UrlHttps    == <<"https://github.com/", "o", "/", "r", ".git">>
OriginCfgs == {OriginAbsent, OriginNoUrl, OriginUrl(UrlSsh), OriginUrl(UrlSshBare),
               OriginUrl(UrlHttps)}

\* The tree the `deps` flow walks when it looks for manifests
TreeDeps ==
  (Root :> <<Dir(".git"), File("Cargo.lock"), Dir("a"), Dir("target"), Dir("b"),
             Link("Cargo.toml")>>) @@
  (<<".git">> :> <<File("config")>>) @@
  (<<"a">> :> <<File("Cargo.toml"), Dir("node_modules"), Dir("target")>>) @@
  (<<"a", "node_modules">> :> <<File("Cargo.toml")>>) @@
  (<<"a", "target">> :> <<File("main.rs")>>) @@
  (<<"target">> :> <<File("Cargo.toml")>>) @@
  (<<"b">> :> <<File("Cargo.toml")>>)

\* A checkout without any manifest
TreeBare ==
  (Root :> <<Dir(".git"), File("Cargo.lock")>>) @@
  (<<".git">> :> <<File("config")>>)

\* a field the parsed TOML does not have
Undefined == "<undefined>"

Dep(n, g, b) == [name |-> n, git |-> g, branch |-> b]

\* a parsed manifest: its top-level dependencies table and the dependencies
\* table of its workspace table, each a sequence of entries in key order
Manifest(hasDeps, deps, hasWs, hasWsDeps, wsDeps) ==
  [error |-> FALSE, hasDeps |-> hasDeps, deps |-> deps, hasWorkspace |-> hasWs,
   hasWsDeps |-> hasWsDeps, wsDeps |-> wsDeps]

\* toml.parse (or readFileSync) throws
ManifestError ==
  [error |-> TRUE, hasDeps |-> FALSE, deps |-> <<>>, hasWorkspace |-> FALSE,
   hasWsDeps |-> FALSE, wsDeps |-> <<>>]

UrlFoo == "https://example.com/foo"
UrlBar == "https://example.com/bar"

Manifests == {
  \* foo = { git, branch = "dev" }; serde = "1.0"
  Manifest(TRUE, <<Dep("foo", UrlFoo, "dev"), Dep("serde", Undefined, Undefined)>>,
           FALSE, FALSE, <<>>),
  \* bar = { git, branch = "dev" }; baz = { git }
  Manifest(TRUE, <<Dep("bar", UrlFoo, "dev"), Dep("baz", UrlFoo, Undefined)>>,
           FALSE, FALSE, <<>>),
  \* [workspace.dependencies] only
  Manifest(FALSE, <<>>, TRUE, TRUE, <<Dep("ws", UrlBar, "master")>>),
  \* an empty [dependencies] table and [workspace.dependencies]
  Manifest(TRUE, <<>>, TRUE, TRUE, <<Dep("hidden", UrlBar, "dev")>>),
  \* eg = { git = "", branch = "dev" }; eb = { git, branch = "" }; p = { path, branch = "dev" }
  Manifest(TRUE, <<Dep("eg", "", "dev"), Dep("eb", UrlBar, ""), Dep("p", Undefined, "dev")>>,
           FALSE, FALSE, <<>>),
  \* neither table ([workspace] without dependencies)
  Manifest(FALSE, <<>>, TRUE, FALSE, <<>>)
}

ManifestInputs == Manifests \cup {ManifestError}

\* most [[package]] blocks of a generated Cargo.lock
MaxBlocks == 3

Null == <<>>

SrcGit1     == <<"git+https://github.com/", "o", "/", "r", "?branch=", "main", "#", "s1">>
SrcGit2     == <<"git+https://github.com/", "o", "/", "r", ".git", "?branch=", "dev", "#", "s2">>
SrcRegistry == <<"registry+https://github.com/", "o", "/", "index">>
SrcGitlab   == <<"git+https://gitlab.com/", "o", "/", "r", "?branch=", "main", "#", "s1">>

\* a [[package]] block: its name and its source (Null: no source line)
Block(n, src) == [name |-> n, source |-> src]
Blocks == [name : {<<"a">>, <<"b">>}, source : {Null, SrcGit1, SrcGit2, SrcRegistry}]

\* the lines of a block, as Cargo writes them
BlockLines(b) ==
  << <<"[[package]]">>,
     <<"name = \"">> \o b.name \o <<"\"">>,
     <<"version = \"", "1", "\"">> >>
  \o (IF b.source = Null THEN <<>> ELSE << <<"source = \"">> \o b.source \o <<"\"">> >>)
  \o << <<>> >>

RECURSIVE LockLines(_)
LockLines(blocks) ==
  IF blocks = <<>> THEN <<>>
  ELSE BlockLines(Head(blocks)) \o LockLines(Tail(blocks))

\* the sequences over S of length 0..n
RECURSIVE SeqsUpTo(_, _)
SeqsUpTo(S, n) ==
  IF n = 0 THEN {<<>>}
  ELSE LET shorter == SeqsUpTo(S, n - 1)
       IN  shorter \cup { Append(q, x) : q \in { r \in shorter : Len(r) = n - 1 }, x \in S }

\* the lockfile header, then the blocks
LockHeader == << <<"# generated by Cargo">>, <<"version = ", "3">>, <<>> >>
LockText(blocks) == [exists |-> TRUE, lines |-> LockHeader \o LockLines(blocks)]

\* there is no Cargo.lock
NoFile == [exists |-> FALSE, lines |-> <<>>]

\* the commit hashes the hosting API answers with
ApiShas == {<<"s1">>, <<"s2">>, <<"s3">>}

----------------------------------------------------------------------------
(* Strings as token sequences *)

HasSlash(t) == t \in {"/", "https://github.com/", "git+https://github.com/",
                      "git+https://gitlab.com/", "registry+https://github.com/"}
HasDot(t) == t \in {".git", "git@github.com:", "https://github.com/",
                    "git+https://github.com/", "git+https://gitlab.com/",
                    "registry+https://github.com/"}
HasHash(t) == t = "#"
IsWord(t) == t \in {"o", "r", "main", "dev", "s1", "s2", "s3", "index"}

\* the character classes of the regular expressions, on tokens
InClass(t, class) ==
  CASE class = "[^/]" -> ~HasSlash(t)
    [] class = "[^.]" -> ~HasDot(t)
    [] class = "[^#]" -> ~HasHash(t)
    [] class = "\\w"  -> IsWord(t)
    [] class = "[^\"]" -> t # "\""

\* the last position of the longest run seq[from..] of tokens of the class
\* (from - 1 when the run is empty): a greedy class+
RECURSIVE RunEnd(_, _, _)
RunEnd(seq, from, class) ==
  IF from <= Len(seq) /\ InClass(seq[from], class)
    THEN RunEnd(seq, from + 1, class)
    ELSE from - 1

SetMin(S) == CHOOSE x \in S : \A y \in S : x <= y
SetMax(S) == CHOOSE x \in S : \A y \in S : x >= y

----------------------------------------------------------------------------
(* The process: command handlers and exit *)

\* both handlers end in .catch(console.error): a rejected command is logged
\* and the rejection is handled, so the process ends with status 0
HandlerExitStatus == 0

\* a variant that reads the url with optional chaining
OriginLookupNeverThrows(cfg) == FALSE

\* gitConfig['remote "origin"']["url"] throws a TypeError: the section is absent
OriginLookupThrows(cfg) == ~cfg.section

\* the event loop drains: nothing is awaited any more
ProcessExit ==
  /\ pc = "done"
  /\ \A d \in DOMAIN dirState : dirState[d] # "pending"
  /\ exitCode' = HandlerExitStatus
  /\ pc' = "exited"
  /\ UNCHANGED <<envVars, walkVars, out, errOut, depsVars, commitsVars>>

----------------------------------------------------------------------------
(* cmdCommits *)

\* the positional arguments <previous-branch> and <previous-branch-upstream>
BranchArg == "stable"
BranchUpstreamArg == "stable-upstream"

\* url.match(/github.com:([^\/]+)\/([^.]+)(?:\.git)?/)
OriginMatchAt(url, i) ==
  LET ownerEnd == RunEnd(url, i + 1, "[^/]")
      repoEnd  == RunEnd(url, ownerEnd + 2, "[^.]")
  IN  [ok    |-> /\ url[i] = "git@github.com:"
                 /\ ownerEnd >= i + 1
                 /\ ownerEnd + 1 <= Len(url)
                 /\ url[ownerEnd + 1] = "/"
                 /\ repoEnd >= ownerEnd + 2,
       owner |-> SubSeq(url, i + 1, ownerEnd),
       repo  |-> SubSeq(url, ownerEnd + 2, repoEnd)]

MatchOrigin(url) ==
  LET starts == { i \in 1..Len(url) : OriginMatchAt(url, i).ok }
  IN  IF starts = {} THEN [ok |-> FALSE, owner |-> <<>>, repo |-> <<>>]
      ELSE OriginMatchAt(url, SetMin(starts))

\* the catch block of cmdCommits and the handler's .catch(console.error)
CommitsCatch(printed) ==
  /\ out' = Append(printed, [kind |-> "error"])
  /\ errOut' = Append(errOut, [kind |-> "failed evaluating commits"])
  /\ pc' = "done"

\* const parts = commit.split(" "); sha = parts.shift(); subject = parts.join(" ")
ParseCommit(parts) == [sha |-> Head(parts), subject |-> Tail(parts)]

\* the loop over the log lines, left at the first line whose sha is the tip
RECURSIVE ExtraFrom(_, _, _)
ExtraFrom(lines, tip, i) ==
  IF i > Len(lines) THEN <<>>
  ELSE IF ParseCommit(lines[i]).sha = tip THEN <<>>
  ELSE <<ParseCommit(lines[i])>> \o ExtraFrom(lines, tip, i + 1)

\* a variant that skips the tip (continue) instead of leaving the loop (break)
RECURSIVE ExtraSkipFrom(_, _, _)
ExtraSkipFrom(lines, tip, i) ==
  IF i > Len(lines) THEN <<>>
  ELSE IF ParseCommit(lines[i]).sha = tip THEN ExtraSkipFrom(lines, tip, i + 1)
  ELSE <<ParseCommit(lines[i])>> \o ExtraSkipFrom(lines, tip, i + 1)

ExtraCommitsSkipTip(lines, tip) == ExtraSkipFrom(lines, tip, 1)

ExtraCommitsOf(lines, tip) == ExtraFrom(lines, tip, 1)

NeedReport(need) ==
  [kind |-> "need", branch |-> currentBranch,
   commits |-> [i \in 1..Len(need) |->
                  [sha |-> need[i].sha,
                   link |-> gitUrl \o <<"/commit/", need[i].sha>>,
                   subject |-> need[i].subject]]]

ContainsCmd(commit) == [cmd |-> "branch --contains", branch |-> currentBranch, sha |-> commit.sha]

\* the handler calls cmdCommits, which runs up to its first await
CommitsStart ==
  /\ pc = "c_start"
  /\ IF OriginLookupThrows(originCfg)
       THEN CommitsCatch(out) /\ UNCHANGED <<vcs, gitUrl>>
     ELSE IF ~originCfg.hasUrl
       THEN /\ CommitsCatch(Append(out, [kind |-> "url", url |-> <<"undefined">>]))
            /\ UNCHANGED <<vcs, gitUrl>>
     ELSE IF ~MatchOrigin(originCfg.url).ok
       THEN /\ CommitsCatch(Append(out, [kind |-> "url", url |-> originCfg.url]))
            /\ UNCHANGED <<vcs, gitUrl>>
     ELSE /\ out' = Append(out, [kind |-> "url", url |-> originCfg.url])
          /\ gitUrl' = <<"https://github.com/">> \o MatchOrigin(originCfg.url).owner
                         \o <<"/">> \o MatchOrigin(originCfg.url).repo
          /\ vcs' = Append(vcs, [cmd |-> "branch --show-current"])
          /\ pc' = "c_branch"
          /\ UNCHANGED errOut
  /\ UNCHANGED <<envVars, walkVars, exitCode, depsVars, currentBranch,
                 lastUpstreamCommit, logLines, contained, extraCommits, needCommits>>

\* git branch --show-current answers
BranchDone ==
  /\ pc = "c_branch"
  /\ \E b \in Branches :
       /\ currentBranch' = b
       /\ vcs' = Append(vcs, [cmd |-> "log -1", ref |-> <<"remotes/upstream/", BranchUpstreamArg>>])
       /\ pc' = "c_tip"
  /\ UNCHANGED <<envVars, walkVars, ioVars, depsVars, gitUrl, lastUpstreamCommit,
                 logLines, contained, extraCommits, needCommits>>

\* git log -1 of the upstream branch answers
TipDone ==
  /\ pc = "c_tip"
  /\ \E t \in Shas :
       /\ lastUpstreamCommit' = t
       /\ vcs' = Append(vcs, [cmd |-> "log", ref |-> <<"remotes/origin/", BranchArg>>])
       /\ pc' = "c_log"
  /\ UNCHANGED <<envVars, walkVars, ioVars, depsVars, gitUrl, currentBranch,
                 logLines, contained, extraCommits, needCommits>>

\* git log of the tracked branch answers: the extra commits are computed and
\* the containment loop runs up to its first query
LogDone ==
  /\ pc = "c_log"
  /\ \E lines \in Logs :
       LET extra == ExtraCommitsOf(lines, lastUpstreamCommit)
       IN  /\ logLines' = lines
           /\ extraCommits' = extra
           /\ IF extra = <<>>
                THEN /\ out' = Append(out, NeedReport(<<>>))
                     /\ pc' = "done"
                     /\ UNCHANGED vcs
                ELSE /\ vcs' = Append(vcs, ContainsCmd(extra[1]))
                     /\ pc' = "c_contains"
                     /\ UNCHANGED out
  /\ UNCHANGED <<envVars, walkVars, errOut, exitCode, depsVars, gitUrl, currentBranch,
                 lastUpstreamCommit, contained, needCommits>>

\* git branch --contains answers for the next extra commit
ContainsDone ==
  /\ pc = "c_contains"
  /\ \E hasCommit \in BOOLEAN :
       LET i == Len(contained) + 1
           need == IF hasCommit THEN needCommits ELSE Append(needCommits, extraCommits[i])
       IN  /\ contained' = Append(contained, hasCommit)
           /\ needCommits' = need
           /\ IF i = Len(extraCommits)
                THEN /\ out' = Append(out, NeedReport(need))
                     /\ pc' = "done"
                     /\ UNCHANGED vcs
                ELSE /\ vcs' = Append(vcs, ContainsCmd(extraCommits[i + 1]))
                     /\ UNCHANGED <<out, pc>>
  /\ UNCHANGED <<envVars, walkVars, errOut, exitCode, depsVars, gitUrl, currentBranch,
                 lastUpstreamCommit, logLines, extraCommits>>

\* a git command fails
ExecFail ==
  /\ pc \in {"c_branch", "c_tip", "c_log", "c_contains"}
  /\ CommitsCatch(out)
  /\ UNCHANGED <<envVars, walkVars, exitCode, depsVars, commitsVars>>

----------------------------------------------------------------------------
(* cmdDependencies *)

\* the two predicates cmdDependencies passes to deepReadDir
DepsIgnoreFn(path, dirent) ==
  IF isDirectory(dirent)
    THEN \/ (path = Root /\ dirent.name \in {"target", ".git", ".github"})
         \/ dirent.name \in {"node_modules"}
    ELSE FALSE

DepsMatcherFn(path, dirent) == isFile(dirent) /\ dirent.name = "Cargo.toml"

\* a JavaScript object with string keys, in insertion order
ObjKeys(obj) == [i \in 1..Len(obj) |-> obj[i].key]
ObjHas(obj, key) == \E i \in 1..Len(obj) : obj[i].key = key
ObjGet(obj, key) == obj[CHOOSE i \in 1..Len(obj) : obj[i].key = key].names

\* if (!obj[key]) obj[key] = []; obj[key].push(name)
ObjPush(obj, key, name) ==
  IF ObjHas(obj, key)
    THEN [i \in 1..Len(obj) |->
            IF obj[i].key = key
              THEN [key |-> key, names |-> Append(obj[i].names, name)]
              ELSE obj[i]]
    ELSE Append(obj, [key |-> key, names |-> <<name>>])

\* JavaScript truthiness of a string field
Truthy(v) == v # Undefined /\ v # ""

\* configToml["dependencies"] || (configToml["workspace"] && configToml["workspace"]["dependencies"])
ConfigDeps(m) ==
  IF m.hasDeps THEN [present |-> TRUE, table |-> m.deps]
  ELSE IF m.hasWorkspace /\ m.hasWsDeps THEN [present |-> TRUE, table |-> m.wsDeps]
  ELSE [present |-> FALSE, table |-> <<>>]

\* a variant without the default branch
DepBranchRaw(dep) == dep.branch

DepBranch(dep) == IF Truthy(dep.branch) THEN dep.branch ELSE "master"
DepKey(dep) == dep.git \o "#" \o DepBranch(dep)

\* one iteration of the loop over Object.keys(configDeps)
IndexDep(deps, dep) ==
  IF Truthy(dep.git) THEN ObjPush(deps, DepKey(dep), dep.name) ELSE deps

RECURSIVE IndexTable(_, _, _)
IndexTable(deps, table, i) ==
  IF i > Len(table) THEN deps
  ELSE IndexTable(IndexDep(deps, table[i]), table, i + 1)

\* the loop over the files, from file i on; it is left at the first file that
\* fails to decode
RECURSIVE ManifestLoop(_, _, _)
ManifestLoop(deps, ms, i) ==
  IF i > Len(ms) THEN [ok |-> TRUE, deps |-> deps, at |-> Len(ms)]
  ELSE IF ms[i].error THEN [ok |-> FALSE, deps |-> deps, at |-> i]
  ELSE ManifestLoop(IF ConfigDeps(ms[i]).present
                      THEN IndexTable(deps, ConfigDeps(ms[i]).table, 1)
                      ELSE deps,
                    ms, i + 1)

\* ---- Cargo.lock ----

\* line.trim(): whitespace tokens at both ends are dropped
RECURSIVE Trim(_)
Trim(line) ==
  IF line # <<>> /\ Head(line) = " " THEN Trim(Tail(line))
  ELSE IF line # <<>> /\ line[Len(line)] = " " THEN Trim(SubSeq(line, 1, Len(line) - 1))
  ELSE line

StartsWith(line, token) == line # <<>> /\ Head(line) = token

\* line.match(/name = "([^"]+)"/) and line.match(/source = "([^"]+)"/), for a
\* line that starts with the opening token
QuotedValue(line) ==
  LET end == RunEnd(line, 2, "[^\"]")
  IN  [ok |-> end >= 2 /\ end + 1 <= Len(line) /\ line[end + 1] = "\"",
       value |-> SubSeq(line, 2, end)]

\* cargoLockPackages[source]: the key null becomes the string "null"
SourceKey(source) == IF source = Null THEN <<"null">> ELSE source

\* the body of the loop over the lines of Cargo.lock; st holds the buffer
\* cargoLockPackage, the index cargoLockPackages and whether a match threw
ScanLine(st, cargoLine) ==
  LET line == Trim(cargoLine)
      committed ==
        IF line = <<"[[package]]">> /\ st.name # Null
          THEN ObjPush(st.index, SourceKey(st.source), st.name)
          ELSE st.index
      isName == StartsWith(line, "name = \"")
      isSource == StartsWith(line, "source = \"")
  IN  [name   |-> IF isName /\ QuotedValue(line).ok THEN QuotedValue(line).value ELSE st.name,
       source |-> IF isSource /\ QuotedValue(line).ok THEN QuotedValue(line).value ELSE st.source,
       index  |-> committed,
       threw  |-> \/ (isName /\ ~QuotedValue(line).ok)
                  \/ (isSource /\ ~QuotedValue(line).ok)]

RECURSIVE ScanFrom(_, _, _)
ScanFrom(st, lines, i) ==
  IF i > Len(lines) \/ st.threw THEN st
  ELSE ScanFrom(ScanLine(st, lines[i]), lines, i + 1)

\* the whole scan, from const cargoLockPackage = { name: null, source: null }
ScanLock(lines) ==
  ScanFrom([name |-> Null, source |-> Null, index |-> <<>>, threw |-> FALSE], lines, 1)

\* ---- verification ----

\* the part of the source pattern from \?branch= on, tried at position q
BranchAt(src, q) ==
  LET branchEnd == RunEnd(src, q + 1, "[^#]")
      shaEnd == RunEnd(src, branchEnd + 2, "\\w")
  IN  [ok |-> /\ q <= Len(src)
              /\ src[q] = "?branch="
              /\ branchEnd >= q + 1
              /\ branchEnd + 1 <= Len(src)
              /\ src[branchEnd + 1] = "#"
              /\ shaEnd >= branchEnd + 2,
       branch |-> SubSeq(src, q + 1, branchEnd),
       sha |-> SubSeq(src, branchEnd + 2, shaEnd)]

\* (?:.git)?\?branch=([^#]+)#(\w+) tried after a repo that ends at repoEnd
TailAt(src, repoEnd) ==
  IF repoEnd + 1 <= Len(src) /\ src[repoEnd + 1] = ".git" /\ BranchAt(src, repoEnd + 2).ok
    THEN BranchAt(src, repoEnd + 2)
    ELSE BranchAt(src, repoEnd + 1)

NoSourceMatch == [ok |-> FALSE, owner |-> <<>>, repo |-> <<>>, branch |-> <<>>, sha |-> <<>>]

\* the pattern tried at position i: the owner up to the next "/", then the
\* longest repo after which the rest of the pattern matches
SourceMatchAt(src, i) ==
  LET ownerEnd == RunEnd(src, i + 1, "[^/]")
      repoMax == RunEnd(src, ownerEnd + 2, "[^/]")
      repoEnds == { k \in (ownerEnd + 2)..repoMax : TailAt(src, k).ok }
  IN  IF /\ src[i] = "git+https://github.com/"
         /\ ownerEnd >= i + 1
         /\ ownerEnd + 1 <= Len(src)
         /\ src[ownerEnd + 1] = "/"
         /\ repoEnds # {}
        THEN [ok |-> TRUE,
              owner |-> SubSeq(src, i + 1, ownerEnd),
              repo |-> SubSeq(src, ownerEnd + 2, SetMax(repoEnds)),
              branch |-> TailAt(src, SetMax(repoEnds)).branch,
              sha |-> TailAt(src, SetMax(repoEnds)).sha]
        ELSE NoSourceMatch

\* source.match(/git\+https:\/\/github.com\/([^/]+)\/([^/]+)(?:.git)?\?branch=([^#]+)#(\w+)/)
MatchSource(src) ==
  LET starts == { i \in 1..Len(src) : SourceMatchAt(src, i).ok }
  IN  IF starts = {} THEN NoSourceMatch ELSE SourceMatchAt(src, SetMin(starts))

\* match[2].replace(".git", ""): the first ".git" is dropped
RECURSIVE StripGit(_)
StripGit(repo) ==
  IF repo = <<>> THEN <<>>
  ELSE IF Head(repo) = ".git" THEN Tail(repo)
  ELSE <<Head(repo)>> \o StripGit(Tail(repo))

\* a variant that requests the repo as captured
RequestOfRaw(m) == [owner |-> m.owner, repo |-> m.repo, branch |-> m.branch]

\* the request axios.get issues for a matched source
RequestOf(m) == [owner |-> m.owner, repo |-> StripGit(m.repo), branch |-> m.branch]

\* the first position from k on whose key matches the pattern (Len + 1: none)
RECURSIVE NextMatching(_, _)
NextMatching(keys, k) ==
  IF k > Len(keys) THEN k
  ELSE IF MatchSource(keys[k]).ok THEN k
  ELSE NextMatching(keys, k + 1)

\* if (sha !== match[4]) console.log(`SHA error! ...`)
ShaReport(source, sha) ==
  IF sha # MatchSource(source).sha
    THEN <<[kind |-> "SHA error", latest |-> sha, owner |-> MatchSource(source).owner,
            repo |-> MatchSource(source).repo, branch |-> MatchSource(source).branch,
            got |-> MatchSource(source).sha, source |-> source]>>
    ELSE <<>>

\* console.log of an index: the whole object when verbose, else its keys
PrintIndex(title, obj) ==
  <<[kind |-> title],
    IF verbose THEN [kind |-> "json", data |-> obj]
               ELSE [kind |-> "keys", data |-> ObjKeys(obj)]>>

\* the `deps` handler and its .catch(console.error)
DepsReject(what) ==
  /\ errOut' = Append(errOut, what)
  /\ pc' = "done"

\* the handler calls cmdDependencies, which runs up to await deepReadDir(...)
DepsStart ==
  /\ pc = "d_start"
  /\ IF OriginLookupThrows(originCfg)
       THEN /\ out' = Append(out, [kind |-> "args"])
            /\ DepsReject([kind |-> "TypeError"])
            /\ UNCHANGED dirState
       ELSE /\ out' = out \o <<[kind |-> "args"],
                               [kind |-> "url",
                                url |-> IF originCfg.hasUrl THEN originCfg.url
                                        ELSE <<"undefined">>]>>
            /\ dirState' = StartDeepReadDir(Root)
            /\ pc' = "d_await_walk"
            /\ UNCHANGED errOut
  /\ UNCHANGED <<envVars, slots, calls, exitCode, depsVars, commitsVars>>

\* deepReadDir rejects
DepsWalkThrow ==
  /\ pc = "d_await_walk"
  /\ DirRejected(Root)
  /\ DepsReject([kind |-> "readdir failed"])
  /\ UNCHANGED <<envVars, walkVars, out, exitCode, depsVars, commitsVars>>

\* cmdDependencies after the lockfile was read: the scan, the print and the
\* verification loop up to its first request
AfterLockRead(printed) ==
  LET scan == ScanLock(lockFile.lines)
      first == NextMatching(ObjKeys(scan.index), 1)
  IN  IF scan.threw
        THEN /\ out' = printed
             /\ DepsReject([kind |-> "TypeError"])
             /\ UNCHANGED <<cargoLockPackages, verifyPos, requests>>
        ELSE /\ out' = printed \o PrintIndex("Cargo.lock", scan.index)
             /\ cargoLockPackages' = scan.index
             /\ verifyPos' = first
             /\ IF first <= Len(scan.index)
                  THEN /\ requests' = Append(requests, RequestOf(MatchSource(scan.index[first].key)))
                       /\ pc' = "d_request"
                  ELSE /\ pc' = "done"
                       /\ UNCHANGED requests
             /\ UNCHANGED errOut

\* deepReadDir fulfils: the manifests are read and indexed, the index is
\* printed and, with --lock, Cargo.lock is read, scanned and printed and the
\* verification loop runs up to its first request
DepsAfterWalk ==
  /\ pc = "d_await_walk"
  /\ DirFulfilled(Root)
  /\ files' = DirValue(Root)
  /\ \E ms \in [1..Len(DirValue(Root)) -> ManifestInputs] :
       LET loop == ManifestLoop(<<>>, ms, 1)
           printed == out \o PrintIndex("Cargo.toml", loop.deps)
       IN  /\ parsed' = SubSeq(ms, 1, loop.at)
           /\ reads' = SubSeq(files', 1, loop.at)
                         \o (IF loop.ok /\ cargoLock THEN <<join(Root, "Cargo.lock")>> ELSE <<>>)
           /\ dependencies' = loop.deps
           /\ IF ~loop.ok
                THEN /\ DepsReject([kind |-> "failed decoding file", file |-> files'[loop.at]])
                     /\ UNCHANGED <<out, cargoLockPackages, verifyPos, requests>>
              ELSE IF ~cargoLock
                THEN /\ out' = printed
                     /\ pc' = "done"
                     /\ UNCHANGED <<errOut, cargoLockPackages, verifyPos, requests>>
              ELSE IF ~lockFile.exists
                THEN /\ out' = printed
                     /\ DepsReject([kind |-> "ENOENT"])
                     /\ UNCHANGED <<cargoLockPackages, verifyPos, requests>>
              ELSE AfterLockRead(printed)
  /\ UNCHANGED <<envVars, walkVars, exitCode, cargoLock, verbose, responses, commitsVars>>

\* the awaited request answers: the sha is compared and the loop runs on to
\* its next request
RequestOk ==
  /\ pc = "d_request"
  /\ \E sha \in ApiShas :
       LET next == NextMatching(ObjKeys(cargoLockPackages), verifyPos + 1)
       IN  /\ responses' = Append(responses, [ok |-> TRUE, sha |-> sha])
           /\ out' = out \o ShaReport(cargoLockPackages[verifyPos].key, sha)
           /\ verifyPos' = next
           /\ IF next <= Len(cargoLockPackages)
                THEN /\ requests' = Append(requests,
                                           RequestOf(MatchSource(cargoLockPackages[next].key)))
                     /\ UNCHANGED pc
                ELSE /\ pc' = "done"
                     /\ UNCHANGED requests
  /\ UNCHANGED <<envVars, walkVars, errOut, exitCode, cargoLock, verbose, files, reads,
                 parsed, dependencies, cargoLockPackages, commitsVars>>

\* a variant that logs the failure and goes on with the next source
RequestFailContinue ==
  /\ pc = "d_request"
  /\ LET next == NextMatching(ObjKeys(cargoLockPackages), verifyPos + 1)
     IN  /\ responses' = Append(responses, [ok |-> FALSE, sha |-> <<>>])
         /\ errOut' = Append(errOut, [kind |-> "AxiosError"])
         /\ verifyPos' = next
         /\ IF next <= Len(cargoLockPackages)
              THEN /\ requests' = Append(requests,
                                         RequestOf(MatchSource(cargoLockPackages[next].key)))
                   /\ UNCHANGED pc
              ELSE /\ pc' = "done"
                   /\ UNCHANGED requests
  /\ UNCHANGED <<envVars, walkVars, out, exitCode, cargoLock, verbose, files, reads,
                 parsed, dependencies, cargoLockPackages, commitsVars>>

\* the awaited request fails
RequestFail ==
  /\ pc = "d_request"
  /\ responses' = Append(responses, [ok |-> FALSE, sha |-> <<>>])
  /\ DepsReject([kind |-> "AxiosError"])
  /\ UNCHANGED <<envVars, walkVars, out, exitCode, cargoLock, verbose, files, reads,
                 parsed, dependencies, cargoLockPackages, verifyPos, requests, commitsVars>>

\* ---- initial values ----

InitWalkState(tree) ==
  /\ fs = tree
  /\ dirState = [d \in DOMAIN tree |-> "idle"]
  /\ slots = [d \in DOMAIN tree |-> <<>>]
  /\ calls = <<>>

InitIo ==
  /\ out = <<>>
  /\ errOut = <<>>
  /\ exitCode = "running"

InitDepsVars ==
  /\ files = <<>>
  /\ reads = <<>>
  /\ parsed = <<>>
  /\ dependencies = <<>>
  /\ cargoLockPackages = <<>>
  /\ verifyPos = 0
  /\ requests = <<>>
  /\ responses = <<>>

InitCommitsVars ==
  /\ vcs = <<>>
  /\ gitUrl = <<>>
  /\ currentBranch = ""
  /\ lastUpstreamCommit = ""
  /\ logLines = <<>>
  /\ contained = <<>>
  /\ extraCommits = <<>>
  /\ needCommits = <<>>

InitWalk ==
  /\ InitWalkState(TreeWalk)
  /\ ignoreSet \in SUBSET Entries(TreeWalk)
  /\ matchSet \in SUBSET NonDirEntries(TreeWalk)
  /\ originCfg = <<>>
  /\ lockFile = NoFile
  /\ cargoLock = FALSE
  /\ verbose = FALSE
  /\ InitIo /\ InitDepsVars /\ InitCommitsVars
  /\ pc = "w_start"

InitCommits ==
  /\ InitWalkState(TreeWalk)
  /\ ignoreSet = {}
  /\ matchSet = {}
  /\ originCfg \in OriginCfgs
  /\ lockFile = NoFile
  /\ cargoLock = FALSE
  /\ verbose = FALSE
  /\ InitIo /\ InitDepsVars /\ InitCommitsVars
  /\ pc = "c_start"

NextCommits ==
  CommitsStart \/ BranchDone \/ TipDone \/ LogDone \/ ContainsDone \/ ExecFail \/ ProcessExit

SpecCommits == InitCommits /\ [][NextCommits]_vars

\* the predicates of cmdDependencies, as the pairs they hold of
DepsIgnoreSet(tree) ==
  UNION { { <<d, tree[d][i].name>> :
              i \in { j \in 1..Len(tree[d]) : DepsIgnoreFn(d, tree[d][j]) } } : d \in DOMAIN tree }
DepsMatchSet(tree) ==
  UNION { { <<d, tree[d][i].name>> :
              i \in { j \in 1..Len(tree[d]) : DepsMatcherFn(d, tree[d][j]) } } : d \in DOMAIN tree }

InitDeps(tree, origins, lockFiles, lockFlags) ==
  /\ InitWalkState(tree)
  /\ ignoreSet = DepsIgnoreSet(tree)
  /\ matchSet = DepsMatchSet(tree)
  /\ originCfg \in origins
  /\ lockFile \in lockFiles
  /\ cargoLock \in lockFlags
  /\ verbose \in BOOLEAN
  /\ InitIo /\ InitDepsVars /\ InitCommitsVars
  /\ pc = "d_start"

\* `deps [--lock] [--verbose]` on a checkout with manifests
Init ==
  InitDeps(TreeDeps,
           {OriginAbsent, OriginNoUrl, OriginUrl(UrlSsh)},
           {NoFile,
            LockText(<<Block(<<"a">>, SrcGit1), Block(<<"b">>, SrcGitlab), Block(<<"a">>, Null)>>),
            LockText(<<Block(<<>>, Null)>>)},
           BOOLEAN)

\* `deps --lock [--verbose]` on a checkout without manifests, with any lockfile
InitLock ==
  InitDeps(TreeBare,
           {OriginUrl(UrlSsh)},
           {NoFile} \cup { LockText(bs) : bs \in SeqsUpTo(Blocks, MaxBlocks) },
           {TRUE})

NextDeps ==
  DepsStart \/ Readdir \/ ReaddirError \/ DepsWalkThrow \/ DepsAfterWalk
    \/ RequestOk \/ RequestFail \/ ProcessExit

Next == NextDeps

Spec == Init /\ [][Next]_vars

SpecLock == InitLock /\ [][NextDeps]_vars

NextWalk == CallDeepReadDir \/ Readdir \/ ReaddirError \/ WalkReturn \/ WalkThrow

SpecWalk == InitWalk /\ [][NextWalk]_vars

----------------------------------------------------------------------------
(* Properties of deepReadDir, checked under SpecWalk *)

\* p is a directory whose entry is ignored, or lies beneath such a directory
UnderIgnoredDir(p) ==
  \E k \in 1..Len(p) :
    /\ SubSeq(p, 1, k) \in DOMAIN fs
    /\ <<SubSeq(p, 1, k - 1), p[k]>> \in ignoreSet

Range(q) == { q[i] : i \in 1..Len(q) }

\* the files that are not ignored, satisfy the match predicate and lie in a
\* directory that is reached through non-ignored directories
ExpectedFiles ==
  { join(e[1], e[2]) :
      e \in { x \in NonDirEntries(fs) :
                ~UnderIgnoredDir(x[1]) /\ x \notin ignoreSet /\ x \in matchSet } }

\* C5: a directory whose entry is ignored is never listed, no entry beneath it
\* reaches either predicate, and the result is exactly the matching,
\* non-ignored files of the directories reached through non-ignored directories.
C5_IgnoredSubtreeNeverVisited ==
  /\ \A d \in DOMAIN fs : UnderIgnoredDir(d) => dirState[d] = "idle"
  /\ \A i \in 1..Len(calls) : ~UnderIgnoredDir(calls[i].dirPath)
  /\ pc = "w_returned" =>
       /\ Range(files) = ExpectedFiles
       /\ Len(files) = Cardinality(ExpectedFiles)

C5_Witness ==
  /\ pc = "w_returned"
  /\ <<Root, "a">> \in ignoreSet
  /\ <<<<"a">>, "g">> \in matchSet
  /\ \E i \in 1..Len(calls) :
       calls[i] = [fn |-> "ignoreFn", dirPath |-> Root, name |-> "a"]
  /\ files # <<>>

\* the depth-first listing of d from dirent i on, siblings in listing order
RECURSIVE DepthFirst(_, _)
DepthFirst(d, i) ==
  IF i > Len(fs[d]) THEN <<>>
  ELSE (IF <<d, fs[d][i].name>> \in ignoreSet THEN <<>>
        ELSE IF fs[d][i].kind = "dir" THEN DepthFirst(Append(d, fs[d][i].name), 1)
        ELSE IF <<d, fs[d][i].name>> \in matchSet THEN <<Append(d, fs[d][i].name)>>
        ELSE <<>>)
       \o DepthFirst(d, i + 1)

\* C9: whatever the order in which the listings complete, the caller receives
\* the depth-first sequence with siblings in listing order, and only once no
\* listing is in flight; after a failed listing the walk is rejected and the
\* caller never receives a result.
C9_GatherIsOrderedAndComplete ==
  /\ pc = "w_returned" =>
       /\ files = DepthFirst(Root, 1)
       /\ \A d \in DOMAIN fs : dirState[d] \in {"idle", "listed"}
  /\ (\E d \in DOMAIN fs : dirState[d] = "failed") =>
       /\ pc # "w_returned"
       /\ files = <<>>
       /\ pc = "w_await" => DirRejected(Root)
  /\ pc = "w_threw" => files = <<>>

\* the listing of b completed before the listing of a/c, and the files of a/c
\* still come first
C9_Witness ==
  /\ pc = "w_returned"
  /\ \E i, j \in 1..Len(calls) :
       i < j /\ calls[i].dirPath = <<"b">> /\ calls[j].dirPath = <<"a", "c">>
  /\ \E x, y \in 1..Len(files) :
       x < y /\ files[x] = <<"a", "c", "h">> /\ files[y] = <<"b", "k">>

----------------------------------------------------------------------------
(* Properties of cmdCommits, checked under SpecCommits *)

OutKinds == { out[i].kind : i \in 1..Len(out) }

\* the position of the first log entry whose sha is the upstream tip
Boundary ==
  LET hits == { i \in 1..Len(logLines) : logLines[i][1] = lastUpstreamCommit }
  IN  IF hits = {} THEN Len(logLines) + 1 ELSE SetMin(hits)

\* the shas of the first k extra commits the branch was found not to contain
RECURSIVE NotContained(_)
NotContained(k) ==
  IF k = 0 THEN <<>>
  ELSE NotContained(k - 1) \o (IF contained[k] THEN <<>> ELSE <<logLines[k][1]>>)

ContainsQueries == SelectSeq(vcs, LAMBDA c : c.cmd = "branch --contains")

\* C2: the extra commits are the log entries strictly before the first entry
\* whose sha is the upstream tip (the whole log when there is none); the need
\* list is the subsequence of them the branch does not contain; no entry at or
\* after the boundary is queried or reported.
C2_ExtraIsPrefixNeedIsSubsequence ==
  logLines # <<>> =>
    /\ Len(extraCommits) = Boundary - 1
    /\ \A i \in 1..Len(extraCommits) :
         /\ extraCommits[i].sha = logLines[i][1]
         /\ extraCommits[i].subject = Tail(logLines[i])
    /\ Len(contained) <= Len(extraCommits)
    /\ [i \in 1..Len(needCommits) |-> needCommits[i].sha] = NotContained(Len(contained))
    /\ Len(ContainsQueries) <= Boundary - 1
    /\ \A i \in 1..Len(ContainsQueries) : ContainsQueries[i].sha = logLines[i][1]
    /\ "need" \in OutKinds =>
         /\ Len(contained) = Boundary - 1
         /\ [i \in 1..Len(out[Len(out)].commits) |-> out[Len(out)].commits[i].sha]
              = NotContained(Boundary - 1)

C2_Witness ==
  /\ pc = "exited"
  /\ [i \in 1..Len(logLines) |-> logLines[i][1]] = <<"c3", "c2", "c1">>
  /\ lastUpstreamCommit = "c1"
  /\ contained = <<FALSE, TRUE>>
  /\ needCommits = <<[sha |-> "c3", subject |-> <<>>]>>
  /\ "need" \in OutKinds

\* C7: without a remote "origin" section the run ends with a non-zero exit
\* status, no git command issued, and neither the url nor the report printed.
C7_MissingOriginExitsNonZero ==
  (originCfg = OriginAbsent /\ pc = "exited") =>
    /\ exitCode # 0
    /\ vcs = <<>>
    /\ "url" \notin OutKinds
    /\ "need" \notin OutKinds

----------------------------------------------------------------------------
(* Properties of cmdDependencies, checked under Spec *)

\* the entries of the selected dependencies table of every manifest read
RECURSIVE SelectedEntries(_)
SelectedEntries(k) ==
  IF k = 0 THEN <<>>
  ELSE SelectedEntries(k - 1) \o
       (IF parsed[k].hasDeps THEN parsed[k].deps
        ELSE IF parsed[k].hasWorkspace /\ parsed[k].hasWsDeps THEN parsed[k].wsDeps
        ELSE <<>>)

ManifestsIndexed ==
  /\ "Cargo.toml" \in OutKinds
  /\ Len(parsed) = Len(files)

NamesOf(entries) == [i \in 1..Len(entries) |-> entries[i].name]

UniqueKeys(obj) == \A i, j \in 1..Len(obj) : obj[i].key = obj[j].key => i = j

\* C4 as stated: an entry counts when it has a git field, and its branch is
\* "master" when it has no branch field
HasGitField(e) == e.git # Undefined
StatedKey(e) == e.git \o "#" \o (IF e.branch = Undefined THEN "master" ELSE e.branch)

\* C4 (as stated): every key maps to the names, in discovery order, of the
\* entries with a git field whose git and branch (master when absent) form it.
C4_IndexOfEntriesWithGitField ==
  ManifestsIndexed =>
    LET entries == SelectSeq(SelectedEntries(Len(parsed)), HasGitField)
        keys == { StatedKey(entries[i]) : i \in 1..Len(entries) }
    IN  /\ UniqueKeys(dependencies)
        /\ Range(ObjKeys(dependencies)) = keys
        /\ \A key \in keys :
             ObjGet(dependencies, key)
               = NamesOf(SelectSeq(entries, LAMBDA e : StatedKey(e) = key))

\* C4 as amended: an entry counts when its git field is a non-empty string, and
\* its branch is "master" when the branch field is absent or empty
HasGitValue(e) == e.git # Undefined /\ e.git # ""
AmendedKey(e) ==
  e.git \o "#" \o (IF e.branch = Undefined \/ e.branch = "" THEN "master" ELSE e.branch)

\* C4 (amended): every key maps to the names, in discovery order, of the
\* entries with a non-empty git value whose git and branch (master when absent
\* or empty) form it; other entries are under no key; one key per git and branch.
C4_IndexOfEntriesWithGitValue ==
  ManifestsIndexed =>
    LET entries == SelectSeq(SelectedEntries(Len(parsed)), HasGitValue)
        keys == { AmendedKey(entries[i]) : i \in 1..Len(entries) }
    IN  /\ UniqueKeys(dependencies)
        /\ Range(ObjKeys(dependencies)) = keys
        /\ \A key \in keys :
             ObjGet(dependencies, key)
               = NamesOf(SelectSeq(entries, LAMBDA e : AmendedKey(e) = key))

\* two manifests declare the same git url and branch; one entry has no git
\* field and one has no branch field
C4_Witness ==
  /\ pc = "exited"
  /\ Len(parsed) = 2
  /\ parsed[1].deps = <<Dep("foo", UrlFoo, "dev"), Dep("serde", Undefined, Undefined)>>
  /\ parsed[2].deps = <<Dep("bar", UrlFoo, "dev"), Dep("baz", UrlFoo, Undefined)>>
  /\ dependencies = <<[key |-> "https://example.com/foo#dev", names |-> <<"foo", "bar">>],
                      [key |-> "https://example.com/foo#master", names |-> <<"baz">>]>>

\* C10: without a remote "origin" section the flow fails before the walk: no
\* directory is listed, no file is read, no request is issued and neither index
\* is printed.
C10_MissingOriginStopsBeforeWalk ==
  originCfg = OriginAbsent =>
    /\ \A d \in DOMAIN fs : dirState[d] = "idle"
    /\ calls = <<>>
    /\ files = <<>>
    /\ reads = <<>>
    /\ parsed = <<>>
    /\ requests = <<>>
    /\ OutKinds \subseteq {"args"}
    /\ pc \in {"d_start", "done", "exited"}
    /\ pc # "d_start" => errOut = <<[kind |-> "TypeError"]>>

C10_Witness ==
  /\ originCfg = OriginAbsent
  /\ cargoLock
  /\ lockFile.exists
  /\ pc = "exited"

----------------------------------------------------------------------------
(* Properties of the lockfile scan and the verification, checked under SpecLock *)

LockScanned == "Cargo.lock" \in OutKinds

IsMarker(line) == line = <<"[[package]]">>

\* the positions of the [[package]] lines, and the k-th of them
MarkerPositions == { i \in 1..Len(lockFile.lines) : IsMarker(lockFile.lines[i]) }
NumBlocks == Cardinality(MarkerPositions)
MarkerAt(k) ==
  CHOOSE p \in MarkerPositions : Cardinality({ q \in MarkerPositions : q < p }) = k - 1

\* the lines of the k-th block: from its marker up to the next marker
BlockSpan(k) ==
  { i \in 1..Len(lockFile.lines) :
      /\ i > MarkerAt(k)
      /\ \A q \in MarkerPositions : q > MarkerAt(k) => i < q }

\* the value between the quotes of a   key = "value"   line
Unquoted(line) == SubSeq(line, 2, Len(line) - 1)

\* the name and the source the k-th block declares (Null: no source line)
BlockName(k) ==
  Unquoted(lockFile.lines[CHOOSE i \in BlockSpan(k) : lockFile.lines[i][1] = "name = \""])
DeclaresSource(k) ==
  \E i \in BlockSpan(k) : lockFile.lines[i] # <<>> /\ lockFile.lines[i][1] = "source = \""
BlockSource(k) ==
  IF DeclaresSource(k)
    THEN Unquoted(lockFile.lines[CHOOSE i \in BlockSpan(k) :
                                   lockFile.lines[i] # <<>> /\ lockFile.lines[i][1] = "source = \""])
    ELSE <<"null">>

RECURSIVE TotalNames(_)
TotalNames(obj) ==
  IF obj = <<>> THEN 0 ELSE Len(Head(obj).names) + TotalNames(Tail(obj))

\* C1: a lockfile of N >= 1 blocks, each with a name line, yields an index
\* that holds N names in all.
C1_EveryBlockIndexed ==
  (LockScanned /\ NumBlocks >= 1) => TotalNames(cargoLockPackages) = NumBlocks

\* the names of the first k blocks that declare the source key, in order
RECURSIVE BucketOf(_, _)
BucketOf(key, k) ==
  IF k = 0 THEN <<>>
  ELSE BucketOf(key, k - 1) \o (IF BlockSource(k) = key THEN <<BlockName(k)>> ELSE <<>>)

\* C6: every committed package is indexed under the source its own block
\* declares, under the null key when its block declares none.
C6_IndexedUnderOwnSource ==
  LockScanned =>
    LET committed == TotalNames(cargoLockPackages)
    IN  /\ committed <= NumBlocks
        /\ \A k \in 1..committed :
             /\ ObjHas(cargoLockPackages, BlockSource(k))
             /\ ObjGet(cargoLockPackages, BlockSource(k)) = BucketOf(BlockSource(k), committed)

\* what the pattern captures in the git sources of the lockfiles
PatternSources == {SrcGit1, SrcGit2}
Pinned(src)  == IF src = SrcGit1 THEN <<"s1">> ELSE <<"s2">>
ApiTarget(src) ==
  IF src = SrcGit1 THEN [owner |-> <<"o">>, repo |-> <<"r">>, branch |-> <<"main">>]
                   ELSE [owner |-> <<"o">>, repo |-> <<"r">>, branch |-> <<"dev">>]

\* the keys of the index that match the pattern, in key order
MatchingKeys == SelectSeq(ObjKeys(cargoLockPackages), LAMBDA k : k \in PatternSources)

ShaReports == SelectSeq(out, LAMBDA o : o.kind = "SHA error")

\* the mismatches of the first k answered requests: source, pinned, returned
RECURSIVE Mismatches(_)
Mismatches(k) ==
  IF k = 0 THEN <<>>
  ELSE Mismatches(k - 1) \o
       (IF responses[k].ok /\ responses[k].sha # Pinned(MatchingKeys[k])
          THEN <<[source |-> MatchingKeys[k], got |-> Pinned(MatchingKeys[k]),
                  latest |-> responses[k].sha]>>
          ELSE <<>>)

RequestsFollowKeys ==
  /\ Len(requests) <= Len(MatchingKeys)
  /\ \A i \in 1..Len(requests) : requests[i] = ApiTarget(MatchingKeys[i])

AllAnswered == \A i \in 1..Len(responses) : responses[i].ok

\* C3: requests go to owner/repo/branch of the keys that match the pattern and
\* to no other key; a key is reported exactly when the returned sha differs
\* from its pinned sha, once, with both shas; when every request succeeds every
\* matching key is compared.
C3_MismatchIffShaDiffers ==
  /\ RequestsFollowKeys
  /\ Len(responses) <= Len(requests)
  /\ [i \in 1..Len(ShaReports) |->
        [source |-> ShaReports[i].source, got |-> ShaReports[i].got,
         latest |-> ShaReports[i].latest]] = Mismatches(Len(responses))
  /\ (LockScanned /\ pc \in {"done", "exited"} /\ AllAnswered) =>
       Len(responses) = Len(MatchingKeys)

\* the sha of the first source is the tip, the sha of the second is not
C3_Witness ==
  /\ pc = "exited"
  /\ ObjKeys(cargoLockPackages) = <<SrcGit1, SrcGit2>>
  /\ responses = <<[ok |-> TRUE, sha |-> <<"s1">>], [ok |-> TRUE, sha |-> <<"s3">>]>>
  /\ Len(ShaReports) = 1
  /\ ShaReports[1].got = <<"s2">>
  /\ ShaReports[1].latest = <<"s3">>

\* C8: at most one request is in flight, the requests follow the key order,
\* and a failed request is the last one: nothing is requested or reported after
\* it, and what was reported before it stays.
C8_SequentialAndAbortOnFailure ==
  /\ Len(requests) \in {Len(responses), Len(responses) + 1}
  /\ (pc = "d_request") <=> (Len(requests) = Len(responses) + 1)
  /\ RequestsFollowKeys
  /\ \A i \in 1..Len(responses) :
       ~responses[i].ok =>
         /\ i = Len(responses)
         /\ Len(requests) = i
         /\ pc \in {"done", "exited"}
         /\ Len(ShaReports) = Len(Mismatches(i - 1))

\* the first request fails while a second matching source waits
C8_Witness ==
  /\ pc = "exited"
  /\ ObjKeys(cargoLockPackages) = <<SrcGit1, SrcGit2>>
  /\ responses = <<[ok |-> FALSE, sha |-> <<>>]>>
  /\ requests = <<[owner |-> <<"o">>, repo |-> <<"r">>, branch |-> <<"main">>]>>
  /\ ShaReports = <<>>

====
